---- MODULE Spec2Model ----
(***************************************************************************)
(* annotate_plate.py: annotate the wells of an OMERO plate from a CSV.     *)
(*                                                                         *)
(* The store (plates, wells, map annotations) lives on the server; a run   *)
(* of main() reads a CSV and, row by row, resolves the plate and the well  *)
(* and creates, overwrites or skips the well's namespaced map annotation.  *)
(* Every server call of main() is one step of the run that makes it.       *)
(***************************************************************************)
EXTENDS Integers, Sequences, FiniteSets, TLC

(* ------------------------------ bounds -------------------------------- *)

\* longest CSV (number of data rows) a run is given
MaxRows == 2
\* most map annotations the store holds; post_map_annotation waits above it
MaxAnns == 5

(* ----------------------------- constants ------------------------------ *)

NAMESPACE == "jax.org/omeroutils/invitro_arsenic/plate_metadata/v0"

\* the keys of DTYPES, in the order the dict lists them
DTYPES == <<"plate_name", "row", "column", "individual", "concentration", "compound">>

\* a namespace of map annotations that are not this tool's
OtherNamespace == "openmicroscopy.org/omero/client/mapAnnotation"

\* None, for an identifier
None == 0

Procs == {1, 2}

\* the run of the runs made one after another
Sequential == {1}

(* ------------------------------ inputs -------------------------------- *)

PlateNames == {"PlateA", "PlateB"}

\* the plates of the store, identifier -> name: two plates of different names,
\* or two plates of one name (and none of the other name)
PlateTables == {<<"PlateA", "PlateB">>, <<"PlateA", "PlateA">>}

\* (row, column) as a CSV gives them: 1-based
Positions == {<<1, 1>>, <<1, 2>>, <<2, 1>>}

\* concentrations, in tenths
Concentrations == {5, 10}

Required == {DTYPES[i] : i \in 1..Len(DTYPES)}

\* the headers a CSV may have: all six columns, or one of them missing
Headers == {Required} \cup {Required \ {c} : c \in Required}

FullRows ==
    {[plate_name |-> n, row |-> rc[1], column |-> rc[2], individual |-> "X",
      concentration |-> c, compound |-> "Y"] :
        n \in PlateNames, rc \in Positions, c \in Concentrations}

Restrict(f, keys) == [k \in keys |-> f[k]]

RowsOver(header) == {Restrict(r, header) : r \in FullRows}

SeqsUpTo(S, n) == UNION {[1..k -> S] : k \in 0..n}

CSVsOver(headers, n) ==
    UNION {{[header |-> h, rows |-> s] : s \in SeqsUpTo(RowsOver(h), n)} : h \in headers}

CSVs == CSVsOver(Headers, MaxRows)

\* the identifiers of S in ascending order
RECURSIVE Ascending(_)
Ascending(S) ==
    IF S = {} THEN <<>>
    ELSE LET least == CHOOSE i \in S : \A j \in S : i <= j
         IN  <<least>> \o Ascending(S \ {least})

\* the orders in which a query may return the identifiers of S: any of them may
\* come first, and main() reads only the first and the length
Orders(S) ==
    IF S = {} THEN {<<>>} ELSE {<<first>> \o Ascending(S \ {first}) : first \in S}

(* ------------------------------- state -------------------------------- *)

VARIABLES
    plates,   \* the store's plates: identifier -> name
    wells,    \* the store's wells: a set of [id, plate, row, column], zero-based
    anns,     \* the store's map annotations: identifier -> [well, ns, kv]
    proc      \* each run of main(): its locals and its position

vars == <<plates, wells, anns, proc>>

store == <<plates, wells, anns>>

\* the map annotations of a well under a namespace
Namespaced(a, well_id, ns) ==
    {i \in 1..Len(a) : a[i].well = well_id /\ a[i].ns = ns}

(* ------------------------- the server's calls ------------------------- *)

\* the rows of "SELECT pl.id FROM Plate pl WHERE pl.name=:pname"
projection(pl, pname) == {id \in DOMAIN pl : pl[id] = pname}

\* get_plate_id without the check for several results: the first row is returned
get_plate_id_first(pl, plate_name) ==
    LET results == projection(pl, plate_name)
    IN  IF Cardinality(results) = 0
          THEN [err |-> "No plate found", id |-> None]
        ELSE [err |-> "", id |-> CHOOSE id \in results : \A other \in results : id <= other]

get_plate_id(pl, plate_name) ==
    LET results == projection(pl, plate_name)
    IN  IF Cardinality(results) = 0
          THEN [err |-> "No plate found", id |-> None]
        ELSE IF Cardinality(results) > 1
          THEN [err |-> "Multiple plates found", id |-> None]
        ELSE [err |-> "", id |-> CHOOSE id \in results : TRUE]

\* ezomero.get_well_id: the well at a zero-based position of a plate, or None
get_well_id(ws, plate_id, row, column) ==
    LET found == {w \in ws : w.plate = plate_id /\ w.row = row /\ w.column = column}
    IN  IF found = {} THEN None ELSE (CHOOSE w \in found : TRUE).id

\* ezomero.get_map_annotation_ids: the identifiers, in any order the server gives
get_map_annotation_ids(a, well_id, ns) == Orders(Namespaced(a, well_id, ns))

\* ezomero.post_map_annotation: a new annotation, linked to the well
post_map_annotation(a, well_id, kv_dict, ns) ==
    Append(a, [well |-> well_id, ns |-> ns, kv |-> kv_dict])

\* put_map_annotation that sends no key-value pairs: the annotation keeps its own
put_map_annotation_keep(a, map_ann_id, kv_dict) == a

\* put_map_annotation on every annotation of the same well and namespace
put_map_annotation_all(a, map_ann_id, kv_dict) ==
    [i \in DOMAIN a |->
        IF a[i].well = a[map_ann_id].well /\ a[i].ns = a[map_ann_id].ns
          THEN [a[i] EXCEPT !.kv = kv_dict]
          ELSE a[i]]

\* ezomero.put_map_annotation: the key-value pairs of an annotation replaced
put_map_annotation(a, map_ann_id, kv_dict) ==
    [a EXCEPT ![map_ann_id].kv = kv_dict]

(* ------------------------------- main --------------------------------- *)

\* the check of the columns stopping before the last key of DTYPES
MissingColumnsButLast(header) ==
    SelectSeq(SubSeq(DTYPES, 1, Len(DTYPES) - 1), LAMBDA col : col \notin header)

\* the columns of DTYPES the header lacks, in DTYPES' order
MissingColumns(header) == SelectSeq(DTYPES, LAMBDA col : col \notin header)

\* dict(record) after the three pops
Payload(rec) == Restrict(rec, DOMAIN rec \ {"plate_name", "row", "column"})

\* the row parsed with row and column left 1-based
ParseOneBased(rec) ==
    [record |-> Payload(rec), plate_name |-> rec["plate_name"],
     row_index |-> rec["row"], col_index |-> rec["column"]]

\* the row parsed: the pops, and the 1-based row and column made indices
Parse(rec) ==
    [record |-> Payload(rec), plate_name |-> rec["plate_name"],
     row_index |-> rec["row"] - 1, col_index |-> rec["column"] - 1]

Idle ==
    [pc |-> "idle", df |-> [header |-> Required, rows |-> <<>>], force |-> FALSE,
     idx |-> 1, record |-> <<>>, plate_name |-> "", row_index |-> None,
     col_index |-> None, plate_id |-> None, well_id |-> None, ma_ids |-> <<>>,
     err |-> "", calls |-> 0, log |-> <<>>, again |-> FALSE]

Finished(p) == proc[p].pc \in {"done", "error"}

\* the locals of main(csv, force) when the loop is reached: connect, read_csv
\* and the check of the columns are done
Begin(csv, force, again) ==
    LET missing == MissingColumns(csv.header)
    IN  [Idle EXCEPT !.df = csv, !.force = force, !.again = again,
            !.pc = IF missing # <<>> THEN "error" ELSE "loop",
            !.err = IF missing # <<>> THEN "csv missing column" ELSE ""]

\* main(args.csv, args.force), up to the loop
Start(p, inputs) ==
    /\ proc[p].pc = "idle"
    /\ \E csv \in inputs, force \in BOOLEAN :
         proc' = [proc EXCEPT ![p] = Begin(csv, force, FALSE)]
    /\ UNCHANGED store

\* the same command line once more, after a run without --force that completed
Rerun(p) ==
    /\ proc[p].pc = "done"
    /\ ~proc[p].force
    /\ ~proc[p].again
    /\ proc' = [proc EXCEPT ![p] = Begin(proc[p].df, FALSE, TRUE)]
    /\ UNCHANGED store

\* the process ends, normally or with the ValueError
Exit(p) ==
    /\ Finished(p)
    /\ proc' = [proc EXCEPT ![p] = Idle]
    /\ UNCHANGED store

\* for _, record in df.iterrows(): the next row, parsed
NextRow(p) ==
    LET s == proc[p]
    IN  /\ s.pc = "loop"
        /\ s.idx <= Len(s.df.rows)
        /\ LET r == Parse(s.df.rows[s.idx])
           IN  proc' = [proc EXCEPT ![p] =
                   [s EXCEPT !.pc = "plate", !.record = r.record,
                       !.plate_name = r.plate_name,
                       !.row_index = r.row_index,
                       !.col_index = r.col_index]]
        /\ UNCHANGED store

\* the loop is over: conn.close()
Close(p) ==
    LET s == proc[p]
    IN  /\ s.pc = "loop"
        /\ s.idx > Len(s.df.rows)
        /\ proc' = [proc EXCEPT ![p] = [s EXCEPT !.pc = "done"]]
        /\ UNCHANGED store

\* plate_id = get_plate_id(conn, plate_name)
PlateLookup(p) ==
    LET s == proc[p]
        r == get_plate_id(plates, s.plate_name)
    IN  /\ s.pc = "plate"
        /\ proc' = [proc EXCEPT ![p] =
               IF r.err # ""
                 THEN [s EXCEPT !.pc = "error", !.err = r.err, !.calls = @ + 1]
                 ELSE [s EXCEPT !.pc = "well", !.plate_id = r.id, !.calls = @ + 1]]
        /\ UNCHANGED store

\* the well lookup without the check for None
WellLookupUnchecked(p) ==
    LET s == proc[p]
        w == get_well_id(wells, s.plate_id, s.row_index, s.col_index)
    IN  /\ s.pc = "well"
        /\ proc' = [proc EXCEPT ![p] =
               [s EXCEPT !.pc = "query", !.well_id = w, !.calls = @ + 1]]
        /\ UNCHANGED store

\* well_id = ezomero.get_well_id(...); None raises
WellLookup(p) ==
    LET s == proc[p]
        w == get_well_id(wells, s.plate_id, s.row_index, s.col_index)
    IN  /\ s.pc = "well"
        /\ proc' = [proc EXCEPT ![p] =
               IF w = None
                 THEN [s EXCEPT !.pc = "error", !.err = "No well found",
                          !.well_id = w, !.calls = @ + 1]
                 ELSE [s EXCEPT !.pc = "query", !.well_id = w, !.calls = @ + 1]]
        /\ UNCHANGED store

\* ma_ids = ezomero.get_map_annotation_ids(conn, "Well", well_id, ns=NAMESPACE)
Query(p) ==
    LET s == proc[p]
    IN  /\ s.pc = "query"
        /\ \E ids \in get_map_annotation_ids(anns, s.well_id, NAMESPACE) :
             proc' = [proc EXCEPT ![p] =
                 [s EXCEPT !.pc = "annotate", !.ma_ids = ids, !.calls = @ + 1]]
        /\ UNCHANGED store

\* the branch without its else: a row that is skipped is posted all the same
OutcomeNoElse(ma_ids, force) ==
    IF Len(ma_ids) # 0 /\ force THEN "put" ELSE "post"

\* the branch without the test of force: an existing annotation is overwritten
OutcomeForced(ma_ids, force) ==
    IF Len(ma_ids) # 0 THEN "put" ELSE "post"

\* what the row does to the store, given ma_ids: "skip", "put" or "post"
Outcome(ma_ids, force) ==
    IF Len(ma_ids) # 0
      THEN IF ~force THEN "skip" ELSE "put"
      ELSE "post"

\* the end of the loop's body with a skip that leaves the loop
ContinueBreak(s, what) ==
    [s EXCEPT !.pc = "loop",
        !.idx = IF what = "skip" THEN Len(s.df.rows) + 1 ELSE @ + 1,
        !.calls = IF what = "skip" THEN @ ELSE @ + 1,
        !.log = Append(@, what)]

\* the end of the loop's body: on to the next row, whatever the branch did
Continue(s, what) ==
    [s EXCEPT !.pc = "loop", !.idx = @ + 1,
        !.calls = IF what = "skip" THEN @ ELSE @ + 1,
        !.log = Append(@, what)]

\* the branch on ma_ids and force, and the end of the loop's body
Annotate(p) ==
    LET s == proc[p]
        what == Outcome(s.ma_ids, s.force)
    IN  /\ s.pc = "annotate"
        /\ what = "post" => Len(anns) < MaxAnns
        /\ anns' = CASE what = "skip" -> anns
                     [] what = "put" -> put_map_annotation(anns, s.ma_ids[1], s.record)
                     [] what = "post" ->
                          post_map_annotation(anns, s.well_id, s.record, NAMESPACE)
        /\ proc' = [proc EXCEPT ![p] = Continue(s, what)]
        /\ UNCHANGED <<plates, wells>>

Step(p, inputs) ==
    \/ Start(p, inputs)
    \/ NextRow(p)
    \/ PlateLookup(p)
    \/ WellLookup(p)
    \/ Query(p)
    \/ Annotate(p)
    \/ Close(p)
    \/ Rerun(p)
    \/ Exit(p)

(* ------------------------------ stores -------------------------------- *)

\* plate 1 has a well at (0,1), plate 2 a well at (0,0)
TheWells ==
    {[id |-> 1, plate |-> 1, row |-> 0, column |-> 1],
     [id |-> 2, plate |-> 2, row |-> 0, column |-> 0]}

OldKv == [individual |-> "W", concentration |-> 5, compound |-> "Y"]
OlderKv == [individual |-> "V", concentration |-> 10, compound |-> "Y"]

Ann(w, ns, kv) == [well |-> w, ns |-> ns, kv |-> kv]

\* stores in which every well has at most one annotation under NAMESPACE
InitAnns ==
    {<<>>,
     <<Ann(1, NAMESPACE, OldKv)>>,
     <<Ann(1, OtherNamespace, OldKv)>>,
     <<Ann(1, OtherNamespace, OldKv), Ann(1, NAMESPACE, OldKv)>>}

\* stores in which a well has several annotations under NAMESPACE
MultiAnns ==
    {<<Ann(1, NAMESPACE, OldKv), Ann(1, OtherNamespace, OldKv), Ann(1, NAMESPACE, OlderKv)>>,
     <<Ann(2, NAMESPACE, OlderKv), Ann(2, NAMESPACE, OldKv), Ann(2, NAMESPACE, OldKv)>>}

Init ==
    /\ plates \in PlateTables
    /\ wells = TheWells
    /\ anns \in InitAnns
    /\ proc = [p \in Procs |-> Idle]

\* runs of main() one after another
Next == \E p \in Sequential : Step(p, CSVs)

Spec == Init /\ [][Next]_vars

\* the steps of a run that is in its loop
LoopStep(p) ==
    NextRow(p) \/ Close(p) \/ PlateLookup(p) \/ WellLookup(p) \/ Query(p) \/ Annotate(p)

\* the interpreter goes on and every server call returns: a run in its loop
\* takes its next step
SpecFair == Spec /\ \A p \in Sequential : WF_vars(LoopStep(p))

InitMulti ==
    /\ plates \in PlateTables
    /\ wells = TheWells
    /\ anns \in MultiAnns
    /\ proc = [p \in Procs |-> Idle]

\* runs one after another, on a store with several annotations on a well
SpecMulti == InitMulti /\ [][Next]_vars

\* the CSVs of the concurrent runs: all six columns, one row or none, one
\* concentration
ConcCSVs ==
    {csv \in CSVsOver({Required}, 1) :
        \A i \in 1..Len(csv.rows) : csv.rows[i]["concentration"] = 5}

InitConc ==
    /\ plates = <<"PlateA", "PlateB">>
    /\ wells = TheWells
    /\ anns = <<>>
    /\ proc = [p \in Procs |-> Idle]

\* two runs of main() at once, their server calls interleaved
NextConc == \E p \in Procs : Step(p, ConcCSVs)

SpecConc == InitConc /\ [][NextConc]_vars

(* ------------------------------ claims -------------------------------- *)

\* the annotations of a well under NAMESPACE
Tagged(a, w) == {i \in DOMAIN a : a[i].well = w /\ a[i].ns = NAMESPACE}

PlatesNamed(n) == {id \in DOMAIN plates : plates[id] = n}

\* the wells a CSV row addresses: a plate of its name, its position made zero-based
TargetWells(rec) ==
    {w.id : w \in {x \in wells : /\ x.plate \in PlatesNamed(rec["plate_name"])
                                 /\ x.row = rec["row"] - 1
                                 /\ x.column = rec["column"] - 1}}

\* a row whose plate or well does not resolve
BadRow(rec) ==
    Cardinality(PlatesNamed(rec["plate_name"])) # 1 \/ TargetWells(rec) = {}

\* the first such row of a CSV, or 0
FirstBad(rows) ==
    IF \E i \in 1..Len(rows) : BadRow(rows[i])
      THEN CHOOSE i \in 1..Len(rows) :
               BadRow(rows[i]) /\ \A j \in 1..(i - 1) : ~BadRow(rows[j])
      ELSE 0

\* a CSV row without plate_name, row and column
RowFields(rec) == [k \in DOMAIN rec \ {"plate_name", "row", "column"} |-> rec[k]]

\* the row a run is at
RowAt(s) == s.df.rows[s.idx]

InRow(s) == s.pc \in {"plate", "well", "query", "annotate"}

LookupErrors == {"No plate found", "Multiple plates found", "No well found"}

\* the writes (post or put) among the rows done
Writes(log) == Cardinality({i \in 1..Len(log) : log[i] # "skip"})

\* the step of run p that ends a row: the branch on ma_ids and force
AnnotateStep(p) == proc[p].pc = "annotate" /\ proc'[p].pc # "annotate"

AtMostOnePerWell ==
    \A i, j \in DOMAIN anns :
        (anns[i].ns = NAMESPACE /\ anns[j].ns = NAMESPACE /\ anns[i].well = anns[j].well)
            => i = j

\* an annotation is created only on a well that has none under NAMESPACE
PostOnlyWhenEmpty ==
    Len(anns') > Len(anns) =>
        /\ Len(anns') = Len(anns) + 1
        /\ anns'[Len(anns')].ns = NAMESPACE
        /\ Tagged(anns, anns'[Len(anns')].well) = {}

\* C1: from a store with at most one annotation under NAMESPACE per well, runs of
\* main one after another (complete or aborted, any CSV, forced or not) keep at
\* most one per well, and a post is made only for a well that has none.
C1_OnePerWell == [](AtMostOnePerWell) /\ [][PostOnlyWhenEmpty]_vars

\* a CSV with two rows for one well: the first is posted, the second skipped
C1_Witness ==
    /\ proc[1].pc = "done"
    /\ proc[1].log = <<"post", "skip">>
    /\ TargetWells(proc[1].df.rows[1]) = TargetWells(proc[1].df.rows[2])
    /\ AtMostOnePerWell

\* C2: the second of two runs of main(csv, force=false) on the same CSV, the
\* first having completed, makes no post and no put: no step of it changes the
\* annotations, it skips every row and completes after three calls per row, and
\* each well the CSV addresses has exactly one annotation under NAMESPACE.
C2_SecondRunState ==
    \A p \in Sequential :
        proc[p].again =>
            /\ proc[p].pc # "error"
            /\ \A i \in 1..Len(proc[p].log) : proc[p].log[i] = "skip"
            /\ proc[p].pc = "done" => proc[p].calls = 3 * Len(proc[p].df.rows)
            /\ \A i \in 1..Len(proc[p].df.rows) :
                 \A w \in TargetWells(proc[p].df.rows[i]) :
                     Cardinality(Tagged(anns, w)) = 1

C2_Idempotent ==
    /\ [](C2_SecondRunState)
    /\ [][\A p \in Sequential : (proc[p].again \/ proc'[p].again) => anns' = anns]_vars

\* the second run of a CSV with two rows is done, and wrote nothing
C2_Witness ==
    /\ proc[1].again
    /\ proc[1].pc = "done"
    /\ proc[1].log = <<"skip", "skip">>
    /\ \E i \in DOMAIN anns : anns[i].kv = RowFields(proc[1].df.rows[1])

\* C3: a row processed with force=true whose well has an annotation under
\* NAMESPACE leaves the number of annotations (of the well, and in all) as it
\* was, keeps the annotation's identifier, well and namespace, makes its payload
\* the row's fields, and makes no post.
C3_Step ==
    \A p \in Sequential :
        LET s == proc[p]
        IN  (AnnotateStep(p) /\ s.force /\ Tagged(anns, s.well_id) # {}) =>
                /\ Len(anns') = Len(anns)
                /\ Tagged(anns', s.well_id) = Tagged(anns, s.well_id)
                /\ \A i \in Tagged(anns, s.well_id) :
                       anns'[i] = [well |-> s.well_id, ns |-> NAMESPACE,
                                   kv |-> RowFields(RowAt(s))]
                /\ proc'[p].log = Append(s.log, "put")

C3_ForceOverwrites == [][C3_Step]_vars

\* a forced row has replaced a payload that was not the row's
C3_Witness ==
    /\ proc[1].force
    /\ proc[1].pc = "loop"
    /\ proc[1].log = <<"put">>
    /\ proc[1].record # OldKv
    /\ anns = <<Ann(1, NAMESPACE, proc[1].record)>>

\* C4: a row (P, r, c, F) whose plate name is that of exactly one plate, with a
\* well at (r-1, c-1): the lookups use the indices r-1 and c-1 and raise nothing;
\* if the well has no annotation under NAMESPACE, the row creates exactly one,
\* on that well, under NAMESPACE, with payload F, forced or not.
C4_Lookup ==
    \A p \in Sequential :
        LET s == proc[p]
        IN  /\ InRow(s) =>
                /\ s.row_index = RowAt(s)["row"] - 1
                /\ s.col_index = RowAt(s)["column"] - 1
                /\ s.plate_name = RowAt(s)["plate_name"]
            /\ (s.pc \in {"query", "annotate"} /\ ~BadRow(RowAt(s))) =>
                s.well_id \in TargetWells(RowAt(s))
            /\ (s.pc = "error" /\ s.err \in LookupErrors) => BadRow(RowAt(s))

C4_Step ==
    \A p \in Sequential :
        LET s == proc[p]
            rec == RowAt(s)
        IN  (AnnotateStep(p) /\ ~BadRow(rec)
                /\ \A w \in TargetWells(rec) : Tagged(anns, w) = {}) =>
                /\ Len(anns') = Len(anns) + 1
                /\ \A i \in DOMAIN anns : anns'[i] = anns[i]
                /\ anns'[Len(anns')].ns = NAMESPACE
                /\ anns'[Len(anns')].kv = RowFields(rec)
                /\ TargetWells(rec) = {anns'[Len(anns')].well}

C4_Create == [](C4_Lookup) /\ [][C4_Step]_vars

\* a forced run has created the annotation of the well at (0, 1) of plate 1
C4_Witness ==
    /\ proc[1].force
    /\ proc[1].pc = "done"
    /\ proc[1].log = <<"post">>
    /\ proc[1].df.rows[1]["row"] = 1
    /\ proc[1].df.rows[1]["column"] = 2
    /\ anns = <<[well |-> 1, ns |-> NAMESPACE, kv |-> RowFields(proc[1].df.rows[1])]>>

\* C5: a run ends with a lookup error at the first row N whose plate name is
\* that of no plate or of several, or whose position has no well, and never goes
\* past it: rows before N are done (their writes stay), row N makes one or two
\* lookups and no write, the step that raises changes no annotation, and the
\* run then makes no call.
C5_State ==
    \A p \in Sequential :
        LET s == proc[p]
            N == FirstBad(s.df.rows)
        IN  /\ (s.pc # "idle" /\ s.err # "csv missing column" /\ N # 0) =>
                /\ s.idx <= N
                /\ s.pc # "done"
                /\ (s.idx = N /\ InRow(s)) => s.pc \in {"plate", "well"}
            /\ (s.pc = "error" /\ s.err # "csv missing column") =>
                /\ s.err \in LookupErrors
                /\ s.idx = N
                /\ Len(s.log) = N - 1
                /\ s.calls = 3 * (N - 1) + Writes(s.log)
                               + (IF s.err = "No well found" THEN 2 ELSE 1)

C5_Step ==
    \A p \in Sequential :
        /\ (proc[p].pc # "error" /\ proc'[p].pc = "error") => anns' = anns
        /\ proc[p].pc = "error" => (anns' = anns /\ proc'[p].pc \in {"error", "idle"})

C5_AbortAtFirstBadRow == [](C5_State) /\ [][C5_Step]_vars

\* the run wrote for row 1 and ended with an error at row 2
C5_Witness ==
    /\ proc[1].pc = "error"
    /\ proc[1].err = "No well found"
    /\ proc[1].idx = 2
    /\ proc[1].log = <<"post">>
    /\ \E i \in DOMAIN anns : anns[i].kv = RowFields(proc[1].df.rows[1])

\* C6: without force, a row whose well has an annotation under NAMESPACE writes
\* nothing and the run goes on with the next row; rows are taken in order, a run
\* that is done has gone through every row, only a missing column or a lookup
\* error ends a run, a run in its loop can always take its next step, and after
\* a skip the run comes to its end: conn.close, or the error of a later row.
C6_State ==
    \A p \in Sequential :
        LET s == proc[p]
        IN  /\ InRow(s) =>
                /\ s.idx <= Len(s.df.rows)
                /\ Len(s.log) = s.idx - 1
                /\ s.plate_name = RowAt(s)["plate_name"]
            /\ s.pc = "done" => (s.idx = Len(s.df.rows) + 1 /\ Len(s.log) = Len(s.df.rows))
            /\ s.pc = "error" => s.err \in LookupErrors \cup {"csv missing column"}
            /\ (s.pc = "loop" \/ InRow(s)) => ENABLED LoopStep(p)

C6_Step ==
    \A p \in Sequential :
        LET s == proc[p]
        IN  (AnnotateStep(p) /\ ~s.force /\ Tagged(anns, s.well_id) # {}) =>
                /\ anns' = anns
                /\ proc'[p] = [s EXCEPT !.pc = "loop", !.idx = s.idx + 1,
                                  !.log = Append(s.log, "skip")]

\* the run has just skipped a row
Skipped(p) ==
    /\ proc[p].pc = "loop"
    /\ ~proc[p].force
    /\ proc[p].log # <<>>
    /\ proc[p].log[Len(proc[p].log)] = "skip"

C6_Completes ==
    \A p \in Sequential : Skipped(p) ~> (proc[p].pc \in {"done", "error"})

C6_ConflictContinues == [](C6_State) /\ [][C6_Step]_vars /\ C6_Completes

\* a run skipped its first row, wrote for the second, and completed
C6_Witness ==
    /\ ~proc[1].force
    /\ proc[1].pc = "done"
    /\ proc[1].log = <<"skip", "post">>

\* C7: a run on a CSV that lacks one of the six columns of DTYPES is in error
\* with the missing-column error from its start on: it has made no call, parsed
\* and written no row, and no step of it changes the store.
C7_State ==
    \A p \in Sequential :
        LET s == proc[p]
        IN  (s.pc # "idle" /\ ~(Required \subseteq s.df.header)) =>
                /\ s.pc = "error"
                /\ s.err = "csv missing column"
                /\ s.calls = 0
                /\ s.log = <<>>
                /\ s.idx = 1
                /\ s.plate_id = None /\ s.well_id = None /\ s.ma_ids = <<>>

C7_Step ==
    \A p \in Sequential :
        (~(Required \subseteq proc[p].df.header) \/ ~(Required \subseteq proc'[p].df.header))
            => store' = store

C7_MissingColumn == [](C7_State) /\ [][C7_Step]_vars

\* a forced run on a CSV of two rows without the column compound
C7_Witness ==
    /\ proc[1].pc = "error"
    /\ proc[1].err = "csv missing column"
    /\ proc[1].force
    /\ Len(proc[1].df.rows) = 2
    /\ proc[1].df.header = Required \ {"compound"}

\* C8: after get_plate_id the run holds the identifier of the one plate of that
\* name, or has raised 'No plate found' when no plate has the name and 'Multiple
\* plates found' when several have; the call leaves the store as it is.
C8_State ==
    \A p \in Sequential :
        LET s == proc[p]
            named == IF s.pc = "error" \/ InRow(s) THEN PlatesNamed(s.plate_name) ELSE {}
        IN  /\ s.pc \in {"well", "query", "annotate"} => named = {s.plate_id}
            /\ (s.pc = "error" /\ s.err = "No plate found") => named = {}
            /\ (s.pc = "error" /\ s.err = "Multiple plates found") => Cardinality(named) >= 2
            /\ (s.pc = "error" /\ s.err = "No well found") => named = {s.plate_id}

C8_Step ==
    \A p \in Sequential :
        proc[p].pc = "plate" =>
            /\ store' = store
            /\ Cardinality(PlatesNamed(proc[p].plate_name)) = 1 <=> proc'[p].pc = "well"

C8_PlateResolution == [](C8_State) /\ [][C8_Step]_vars

\* the name of two plates was looked up
C8_Witness ==
    /\ proc[1].pc = "error"
    /\ proc[1].err = "Multiple plates found"
    /\ Cardinality(PlatesNamed(proc[1].plate_name)) = 2

\* C9: a row whose well has two or more annotations under NAMESPACE: with force,
\* the first identifier the query returned is one of them and has its payload
\* replaced by the row's fields, every other annotation is as it was and none is
\* created or deleted; without force nothing changes.
C9_Step ==
    \A p \in Sequential :
        LET s == proc[p]
            first == s.ma_ids[1]
        IN  (AnnotateStep(p) /\ Cardinality(Tagged(anns, s.well_id)) >= 2) =>
                IF s.force
                  THEN /\ first \in Tagged(anns, s.well_id)
                       /\ DOMAIN anns' = DOMAIN anns
                       /\ anns'[first] = [anns[first] EXCEPT !.kv = RowFields(RowAt(s))]
                       /\ \A i \in DOMAIN anns \ {first} : anns'[i] = anns[i]
                  ELSE anns' = anns

C9_FirstOnly == [][C9_Step]_vars

\* a forced row replaced the payload of the later of two annotations of well 1
C9_Witness ==
    /\ proc[1].force
    /\ proc[1].log = <<"put">>
    /\ proc[1].ma_ids = <<3, 1>>
    /\ anns[3].kv = proc[1].record
    /\ anns[1].kv = OldKv
    /\ Len(anns) = 3

\* C10: with two runs of main at once, their server calls interleaved, every
\* well has at most one annotation under NAMESPACE in every state.
C10_InterleavedOnePerWell ==
    \A w \in {x.id : x \in wells} : Cardinality(Tagged(anns, w)) <= 1

====
